---- MODULE Spec2Model ----
(***************************************************************************)
(* Model of the portfolio core of china_AI: the initial-price repository,  *)
(* the portfolio allocator and the currency-rate service.                  *)
(*                                                                         *)
(* Money is counted in integer units of 1e-6 USD, so that the allocator's  *)
(* tolerance EPS = 1e-6 is exactly one unit.  Targets ("Alvo USD") are     *)
(* total_cash * peso / 100 and are kept multiplied by 100 (Alvo100), so    *)
(* that all arithmetic is exact.  A float is a record: Num(v), NaN, or     *)
(* None for a missing mapping entry.                                       *)
(***************************************************************************)
EXTENDS Integers, Sequences, FiniteSets, TLC

\* ------------------------------------------------------------------ bounds
MaxCompanies == 2
MaxCash == 6
MaxPrice == 2
MaxDate == 4
ExampleSpread == 20
MaxHistCompanies == 2
HistLen == 2

\* --------------------------------------------------------------- constants
EPS == 1

WeightChoices == {40, 60, 100}
Currencies == {"USD", "HKD"}
Tickers == 1..MaxCompanies

\* ------------------------------------------------------------------ floats
None == [k |-> "none", v |-> 0]
NaN == [k |-> "nan", v |-> 0]
Num(x) == [k |-> "num", v |-> x]
IsNone(x) == x.k = "none"
IsNa(x) == x.k = "nan"
FloatMul(a, b) == IF IsNa(a) \/ IsNa(b) THEN NaN ELSE Num(a.v * b.v)

\* a variant of Trunc that rounds to the nearest integer
TruncNearest(n, d) == (2 * n + d) \div (2 * d)

\* int(): truncation toward zero of the rational n / d, d > 0
Trunc(n, d) == IF n >= 0 THEN n \div d ELSE -((-n) \div d)

\* round(): the rational n / d (d > 0) rounded half-to-even to an integer
RoundHalfEven(n, d) ==
    LET fl == n \div d
        r2 == 2 * (n - fl * d)
    IN  IF r2 < d THEN fl
        ELSE IF r2 > d THEN fl + 1
        ELSE IF fl % 2 = 0 THEN fl ELSE fl + 1

\* ---------------------------------------------------------------- messages
Msg(level, code, about) == [level |-> level, code |-> code, about |-> about]

\* -------------------------------------------------------------- FX series
\* A series is a sequence of points [t, x] in increasing date order.
Pt(t, x) == [t |-> t, x |-> x]
ConstOne(index) == [i \in 1..Len(index) |-> Pt(index[i], Num(1))]
BusinessDays == <<1, 2, 3>>

\* a variant of Asof that takes the last value of the series, whatever its date
AsofLastOverall(s, ts) ==
    LET ok == {i \in 1..Len(s) : ~IsNa(s[i].x)}
    IN  IF ok = {} THEN NaN
        ELSE s[CHOOSE i \in ok : \A j \in ok : j <= i].x

\* pandas Series.asof: the last non-missing value dated at or before ts
Asof(s, ts) ==
    LET ok == {i \in 1..Len(s) : s[i].t <= ts /\ ~IsNa(s[i].x)}
    IN  IF ok = {} THEN NaN
        ELSE s[CHOOSE i \in ok : \A j \in ok : j <= i].x

\* fx_series.dropna().iloc[-1], or 1.0 when nothing is left
LastValid(s) ==
    LET ok == {i \in 1..Len(s) : ~IsNa(s[i].x)}
    IN  IF ok = {} THEN Num(1)
        ELSE s[CHOOSE i \in ok : \A j \in ok : j <= i].x

\* _extract_fx_rate: the rate and whether the fallback warning was issued
ExtractFxRate(s, ts) ==
    LET fx_no_dia == Asof(s, ts)
    IN  IF IsNa(fx_no_dia)
        THEN [rate |-> LastValid(s), warned |-> TRUE]
        ELSE [rate |-> fx_no_dia, warned |-> FALSE]

\* ------------------------------------------------------------------- state
VARIABLES
    pc,                     \* position in the pipeline
    companies,              \* the companies of the run, in order
    total_cash_usd,
    purchase_ts,
    fx_series_by_currency,  \* currency -> series, or None
    csv,                    \* the snapshot: [exists, df: ticker -> cell]
    initial_prices_local,   \* ticker -> Num / NaN, None when absent
    repo_messages,          \* messages of load_prices
    comp_idx,               \* index of the next company in allocate's for loop
    rows,                   \* df_alloc
    messages,               \* messages of allocate
    precos_iniciais_usd,    \* ticker -> Num, None when absent
    caixa,
    caixa_inicial,
    min_price,
    eventos,
    final_cash_usd,
    fx_pc,                  \* position in the currency-rate service
    pair_config_arg,        \* the pair_config argument of the constructor
    pair_config,            \* self._pair_config
    currencies,             \* the requested currencies, in order
    cur_idx,                \* index of the next currency in load_series
    fx_map,                 \* currency -> rate series over the index
    fx_messages,            \* messages of load_series
    fetch_log,              \* the fetches made, with what the market data gave
    hist_pc,                \* position in the price-history service
    hist_companies,         \* the companies argument of load_usd_history
    hist_fx,                \* its fx_series_by_currency argument
    hist_fetch,             \* ticker -> what yf.Ticker(ticker).history gives
    align_raises,           \* whether reindexing the default series raises
    tickers,                \* the keys of the tickers dict, in order
    hist_idx,               \* index of the next ticker in load_usd_history
    price_series,           \* the price_series dict, in insertion order
    hist_messages,          \* messages of load_usd_history
    prices_df               \* the returned frame

allocVars == <<pc, companies, total_cash_usd, purchase_ts, fx_series_by_currency,
               csv, initial_prices_local, repo_messages, comp_idx, rows, messages,
               precos_iniciais_usd, caixa, caixa_inicial, min_price, eventos,
               final_cash_usd>>

fxVars == <<fx_pc, pair_config_arg, pair_config, currencies, cur_idx, fx_map,
            fx_messages, fetch_log>>

histVars == <<hist_pc, hist_companies, hist_fx, hist_fetch, align_raises, tickers,
              hist_idx, price_series, hist_messages, prices_df>>

vars == <<allocVars, fxVars, histVars>>

\* ------------------------------------------------------------------ inputs
CompanyLists ==
    UNION {{cs \in [1..n -> [ticker : Tickers, target_weight : WeightChoices,
                             currency : Currencies]] :
                \A k \in 1..n : cs[k].ticker = k} : n \in 0..MaxCompanies}

Absent == [k |-> "absent", v |-> 0]
Cells == {Absent, NaN} \cup {Num(p) : p \in 1..MaxPrice}

\* a mapping entry of fx_series_by_currency: a series, or no entry at all
Series(s) == [present |-> TRUE, s |-> s]
NoSeries == [present |-> FALSE, s |-> <<>>]
HkdSeriesChoices ==
    { NoSeries,
      Series(<<Pt(1, Num(2)), Pt(3, Num(1))>>),
      Series(<<Pt(1, Num(0)), Pt(2, Num(0))>>),
      Series(<<Pt(2, Num(-1))>>) }

\* the currency-rate service is not running
FxIdle ==
    /\ fx_pc = "idle"
    /\ pair_config_arg = <<>>
    /\ pair_config = <<>>
    /\ currencies = <<>>
    /\ cur_idx = 1
    /\ fx_map = <<>>
    /\ fx_messages = <<>>
    /\ fetch_log = <<>>

HistIdle ==
    /\ hist_pc = "idle"
    /\ hist_companies = <<>>
    /\ hist_fx = <<>>
    /\ hist_fetch = <<>>
    /\ align_raises = FALSE
    /\ tickers = <<>>
    /\ hist_idx = 1
    /\ price_series = <<>>
    /\ hist_messages = <<>>
    /\ prices_df = <<>>

Init ==
    /\ pc = "load_prices"
    /\ companies \in CompanyLists
    /\ total_cash_usd \in 0..MaxCash
    /\ purchase_ts = 2
    /\ \E h \in HkdSeriesChoices :
          fx_series_by_currency =
              [c \in Currencies |->
                  IF c = "USD" THEN Series(ConstOne(BusinessDays)) ELSE h]
    /\ \E exists \in BOOLEAN :
          \E df \in [1..Len(companies) -> Cells] :
              /\ (~exists => \A k \in 1..Len(companies) : df[k] = Absent)
              /\ csv = [exists |-> exists, df |-> df]
    /\ initial_prices_local = <<>>
    /\ repo_messages = <<>>
    /\ comp_idx = 1
    /\ rows = <<>>
    /\ messages = <<>>
    /\ precos_iniciais_usd = [t \in Tickers |-> None]
    /\ caixa = 0
    /\ caixa_inicial = 0
    /\ min_price = 0
    /\ eventos = <<>>
    /\ final_cash_usd = 0
    /\ FxIdle
    /\ HistIdle

\* ------------------------------------------- InitialPriceRepository.load_prices
RECURSIVE RepoMessages(_, _)
RepoMessages(cs, df) ==
    IF cs = <<>> THEN <<>>
    ELSE LET c == Head(cs)
             rest == RepoMessages(Tail(cs), df)
         IN  IF df[c.ticker] = Absent
             THEN <<Msg("WARNING", "ticker_absent_csv", c.ticker)>> \o rest
             ELSE rest

LoadPrices ==
    /\ pc = "load_prices"
    /\ IF ~csv.exists
       THEN /\ repo_messages' = <<Msg("ERROR", "file_not_found", 0)>>
            /\ initial_prices_local' = [t \in 1..Len(companies) |-> None]
       ELSE /\ repo_messages' = RepoMessages(companies, csv.df)
            /\ initial_prices_local' =
                   [t \in 1..Len(companies) |->
                       IF csv.df[t] = Absent THEN None ELSE csv.df[t]]
    /\ pc' = "resolve"
    /\ UNCHANGED <<companies, total_cash_usd, purchase_ts, fx_series_by_currency,
                   csv, comp_idx, rows, messages, precos_iniciais_usd, caixa,
                   caixa_inicial, min_price, eventos, final_cash_usd,
                   fxVars, histVars>>

\* ------------------------------------------------ PortfolioAllocator.allocate
\* a variant of MissingPriceMsg with the repository's level
MissingPriceMsgWarning(ticker) == Msg("WARNING", "no_initial_price", ticker)

\* the message of a company without an initial price
MissingPriceMsg(ticker) == Msg("ERROR", "no_initial_price", ticker)

\* a variant of InvalidPriceMsg that only warns
InvalidPriceMsgWarning(ticker) == Msg("WARNING", "invalid_price", ticker)

\* the message of a company whose USD price is undefined or not positive
InvalidPriceMsg(ticker) == Msg("ERROR", "invalid_price", ticker)

\* pd.isna(preco_ini_usd) or preco_ini_usd <= 0
InvalidPrice(p) == IsNa(p) \/ p.v <= 0

\* One pass of the for loop of allocate over a company: the messages it
\* appends, whether the company gets a row, and the row.
ResolveCompanyRow(company, cash, prices, fxmap, ts) ==
    LET ticker == company.ticker
        peso == company.target_weight
        preco_ini_local == prices[ticker]
        entry == fxmap[company.currency]
        noFx == ~entry.present \/ entry.s = <<>>
        ext == ExtractFxRate(entry.s, ts)
        fx_rate == IF noFx THEN Num(1) ELSE ext.rate
        fxMsgs == IF noFx THEN <<Msg("WARNING", "no_fx_series", ticker)>>
                  ELSE IF ext.warned THEN <<Msg("WARNING", "no_fx_asof", ticker)>>
                  ELSE <<>>
        preco_ini_usd == FloatMul(preco_ini_local, fx_rate)
        price == preco_ini_usd.v
        alvo100 == cash * peso
        den == 100 * price
        qtd_inteira == Trunc(alvo100, den)
        resnum == alvo100 - qtd_inteira * den
    IN  IF IsNone(preco_ini_local)
        THEN [msgs |-> <<MissingPriceMsg(ticker)>>,
              included |-> FALSE, row |-> <<>>]
        ELSE IF InvalidPrice(preco_ini_usd)
        THEN [msgs |-> fxMsgs \o <<InvalidPriceMsg(ticker)>>,
              included |-> FALSE, row |-> <<>>]
        ELSE [msgs |-> fxMsgs,
              included |-> TRUE,
              row |-> [Ticker |-> ticker,
                       Moeda |-> company.currency,
                       Peso |-> peso,
                       PrecoLocal |-> preco_ini_local.v,
                       FX |-> fx_rate.v,
                       PrecoUSD |-> price,
                       Alvo100 |-> alvo100,
                       QtdExataNum |-> alvo100,
                       QtdExataDen |-> den,
                       QtdInteiraInicial |-> qtd_inteira,
                       Quantidade |-> qtd_inteira,
                       ResNum |-> resnum,
                       ResiduoInicial |-> RoundHalfEven(resnum * 10000, price),
                       Residuo |-> RoundHalfEven(resnum * 10000, price),
                       Investimento |-> 0]]

ResolveCompany ==
    /\ pc = "resolve"
    /\ comp_idx <= Len(companies)
    /\ LET r == ResolveCompanyRow(companies[comp_idx], total_cash_usd,
                                  initial_prices_local, fx_series_by_currency,
                                  purchase_ts)
       IN  /\ messages' = messages \o r.msgs
           /\ rows' = IF r.included THEN Append(rows, r.row) ELSE rows
           /\ precos_iniciais_usd' =
                  IF r.included
                  THEN [precos_iniciais_usd EXCEPT ![r.row.Ticker] = Num(r.row.PrecoUSD)]
                  ELSE precos_iniciais_usd
    /\ comp_idx' = comp_idx + 1
    /\ UNCHANGED <<pc, companies, total_cash_usd, purchase_ts,
                   fx_series_by_currency, csv, initial_prices_local,
                   repo_messages, caixa, caixa_inicial, min_price, eventos,
                   final_cash_usd,
                   fxVars, histVars>>

RECURSIVE SumInvested(_)
SumInvested(rs) ==
    IF rs = <<>> THEN 0
    ELSE Head(rs).Quantidade * Head(rs).PrecoUSD + SumInvested(Tail(rs))

\* a variant of InitialCash that forgets the initial purchases
InitialCashFull(total, rs) == total

\* total_cash_usd - (Quantidade * price).sum()
InitialCash(total, rs) == total - SumInvested(rs)

MinPrice(rs) ==
    LET ps == {rs[k].PrecoUSD : k \in 1..Len(rs)}
    IN  CHOOSE p \in ps : \A q \in ps : p <= q

\* a variant of EmptyResult that reports no cash at all
EmptyResultNoCash(total) == [initial_cash_usd |-> 0, final_cash_usd |-> 0]

\* the cash figures of the AllocationResult returned on an empty frame
EmptyResult(total) == [initial_cash_usd |-> total, final_cash_usd |-> total]

\* End of the for loop: the early return on an empty frame, or the set-up of
\* the distribution loop.
BuildFrame ==
    /\ pc = "resolve"
    /\ comp_idx > Len(companies)
    /\ IF rows = <<>>
       THEN /\ caixa_inicial' = EmptyResult(total_cash_usd).initial_cash_usd
            /\ final_cash_usd' = EmptyResult(total_cash_usd).final_cash_usd
            /\ pc' = "done"
            /\ UNCHANGED <<caixa, min_price>>
       ELSE /\ caixa' = InitialCash(total_cash_usd, rows)
            /\ caixa_inicial' = InitialCash(total_cash_usd, rows)
            /\ min_price' = MinPrice(rows)
            /\ pc' = "loop"
            /\ UNCHANGED final_cash_usd
    /\ UNCHANGED <<companies, total_cash_usd, purchase_ts, fx_series_by_currency,
                   csv, initial_prices_local, repo_messages, comp_idx, rows, messages,
                   precos_iniciais_usd, eventos,
                   fxVars, histVars>>

Gap100(r) == r.Alvo100 - 100 * r.Quantidade * r.PrecoUSD

\* a variant of Affordable that takes every instrument as affordable
AffordableAll(rs, cash) == 1..Len(rs)

\* affordable = coluna_investimento <= (caixa + self.EPS)
Affordable(rs, cash) == {k \in 1..Len(rs) : rs[k].PrecoUSD <= cash + EPS}

\* a variant of BestCandidate that sorts the gap ascending
BestCandidateSmallestGap(rs, cand) ==
    CHOOSE k \in cand :
        \A j \in cand :
            \/ Gap100(rs[k]) < Gap100(rs[j])
            \/ /\ Gap100(rs[k]) = Gap100(rs[j])
               /\ rs[k].PrecoUSD < rs[j].PrecoUSD
            \/ /\ Gap100(rs[k]) = Gap100(rs[j])
               /\ rs[k].PrecoUSD = rs[j].PrecoUSD
               /\ k <= j

\* a variant of BestCandidate that breaks gap ties by the highest price
BestCandidatePriciest(rs, cand) ==
    CHOOSE k \in cand :
        \A j \in cand :
            \/ Gap100(rs[k]) > Gap100(rs[j])
            \/ /\ Gap100(rs[k]) = Gap100(rs[j])
               /\ rs[k].PrecoUSD > rs[j].PrecoUSD
            \/ /\ Gap100(rs[k]) = Gap100(rs[j])
               /\ rs[k].PrecoUSD = rs[j].PrecoUSD
               /\ k <= j

\* candidatos.sort_values(by gap descending, price ascending).index[0];
\* the sort is stable, so full ties keep the row order
BestCandidate(rs, cand) ==
    CHOOSE k \in cand :
        \A j \in cand :
            \/ Gap100(rs[k]) > Gap100(rs[j])
            \/ /\ Gap100(rs[k]) = Gap100(rs[j])
               /\ rs[k].PrecoUSD < rs[j].PrecoUSD
            \/ /\ Gap100(rs[k]) = Gap100(rs[j])
               /\ rs[k].PrecoUSD = rs[j].PrecoUSD
               /\ k <= j

\* a variant of BuyCash that forgets the debit
BuyCashNoDebit(cash, preco) == cash

\* caixa -= preco_compra
BuyCash(cash, preco) == cash - preco

\* a variant of GapExhausted that still buys at a gap of exactly zero
GapExhaustedStrict(g100) == g100 < 0

\* a variant of GapExhausted that never stops the loop
GapExhaustedNever(g100) == FALSE

\* candidatos.loc[idx, "Gap USD"] <= 0
GapExhausted(g100) == g100 <= 0

\* a variant of BuyRows that buys two units
BuyRowsTwo(rs, idx) == [rs EXCEPT ![idx].Quantidade = @ + 2]

\* df_alloc.loc[idx, "Quantidade"] += 1
BuyRows(rs, idx) == [rs EXCEPT ![idx].Quantidade = @ + 1]

\* a variant of MakeEvent that records the cash after the debit twice
MakeEventCashAfter(row, preco, cash_before, cash_after, gap_before, gap_after) ==
    [ticker |-> row.Ticker,
     unit_price_usd |-> preco,
     cash_before_usd |-> cash_after,
     cash_after_usd |-> cash_after,
     gap_before100 |-> gap_before,
     gap_after100 |-> gap_after,
     quantity_delta |-> 1]

\* PurchaseEvent(...)
MakeEvent(row, preco, cash_before, cash_after, gap_before, gap_after) ==
    [ticker |-> row.Ticker,
     unit_price_usd |-> preco,
     cash_before_usd |-> cash_before,
     cash_after_usd |-> cash_after,
     gap_before100 |-> gap_before,
     gap_after100 |-> gap_after,
     quantity_delta |-> 1]

\* One iteration of the while loop: a break, or the purchase of one unit.
Iterate ==
    /\ pc = "loop"
    /\ caixa + EPS >= min_price
    /\ LET affordable == Affordable(rows, caixa)
       IN  IF affordable = {}
           THEN /\ pc' = "final"
                /\ UNCHANGED <<rows, caixa, eventos>>
           ELSE LET idx == BestCandidate(rows, affordable)
                    preco_compra == rows[idx].PrecoUSD
                    bought == BuyRows(rows, idx)
                IN  IF GapExhausted(Gap100(rows[idx]))
                    THEN /\ pc' = "final"
                         /\ UNCHANGED <<rows, caixa, eventos>>
                    ELSE /\ rows' = bought
                         /\ caixa' = BuyCash(caixa, preco_compra)
                         /\ eventos' = Append(eventos,
                                MakeEvent(rows[idx], preco_compra, caixa,
                                          BuyCash(caixa, preco_compra),
                                          Gap100(rows[idx]), Gap100(bought[idx])))
                         /\ pc' = "loop"
    /\ UNCHANGED <<companies, total_cash_usd, purchase_ts, fx_series_by_currency,
                   csv, initial_prices_local, repo_messages, comp_idx, messages,
                   precos_iniciais_usd, caixa_inicial, min_price, final_cash_usd,
                   fxVars, histVars>>

\* The loop condition is false.
ExitLoop ==
    /\ pc = "loop"
    /\ ~(caixa + EPS >= min_price)
    /\ pc' = "final"
    /\ UNCHANGED <<companies, total_cash_usd, purchase_ts, fx_series_by_currency,
                   csv, initial_prices_local, repo_messages, comp_idx, rows, messages,
                   precos_iniciais_usd, caixa, caixa_inicial, min_price, eventos,
                   final_cash_usd,
                   fxVars, histVars>>

\* The final columns and the AllocationResult.
Finalize ==
    /\ pc = "final"
    /\ rows' = [k \in 1..Len(rows) |->
                  [rows[k] EXCEPT
                     !.Investimento =
                         10000 * RoundHalfEven(rows[k].Quantidade * rows[k].PrecoUSD, 10000),
                     !.Residuo =
                         RoundHalfEven(Gap100(rows[k]) * 10000, rows[k].PrecoUSD)]]
    /\ final_cash_usd' = caixa
    /\ pc' = "done"
    /\ UNCHANGED <<companies, total_cash_usd, purchase_ts, fx_series_by_currency,
                   csv, initial_prices_local, repo_messages, comp_idx, messages,
                   precos_iniciais_usd, caixa, caixa_inicial, min_price, eventos,
                   fxVars, histVars>>

Next ==
    \/ LoadPrices
    \/ ResolveCompany
    \/ BuildFrame
    \/ Iterate
    \/ ExitLoop
    \/ Finalize

Spec == Init /\ [][Next]_vars

\* --------------------------------------------- allocate over the FX series
\* The inputs that exercise the as-of resolution: one HKD company with a
\* price, and every FX series over the dates 1..MaxDate, whose points may be
\* missing, zero or positive, with the purchase date before, inside or after
\* them.
FxCells == {Absent, NaN, Num(0), Num(1), Num(2)}

RECURSIVE SeriesFrom(_, _)
SeriesFrom(f, d) ==
    IF d > MaxDate THEN <<>>
    ELSE IF f[d] = Absent THEN SeriesFrom(f, d + 1)
    ELSE <<Pt(d, f[d])>> \o SeriesFrom(f, d + 1)

AsofSeriesChoices ==
    {NoSeries} \cup {Series(SeriesFrom(f, 1)) : f \in [1..MaxDate -> FxCells]}

AsofInit ==
    /\ pc = "load_prices"
    /\ \E w \in WeightChoices :
          companies = <<[ticker |-> 1, target_weight |-> w, currency |-> "HKD"]>>
    /\ total_cash_usd = MaxCash
    /\ purchase_ts \in 0..(MaxDate + 1)
    /\ \E h \in AsofSeriesChoices :
          fx_series_by_currency =
              [c \in Currencies |->
                  IF c = "USD" THEN Series(ConstOne(BusinessDays)) ELSE h]
    /\ \E p \in 1..MaxPrice : csv = [exists |-> TRUE, df |-> <<Num(p)>>]
    /\ initial_prices_local = <<>>
    /\ repo_messages = <<>>
    /\ comp_idx = 1
    /\ rows = <<>>
    /\ messages = <<>>
    /\ precos_iniciais_usd = [t \in Tickers |-> None]
    /\ caixa = 0
    /\ caixa_inicial = 0
    /\ min_price = 0
    /\ eventos = <<>>
    /\ final_cash_usd = 0
    /\ FxIdle
    /\ HistIdle

AsofSpec == AsofInit /\ [][Next]_vars

\* ------------------------------------------- allocate over the two scenarios
\* The two worked scenarios, A(60, 100) with B(40, 30) and A(50, 10) with
\* B(50, 10), both in USD, each with its cash and the ExampleSpread amounts
\* above it.
Scenario(w1, p1, w2, p2) ==
    [cs |-> <<[ticker |-> 1, target_weight |-> w1, currency |-> "USD"],
              [ticker |-> 2, target_weight |-> w2, currency |-> "USD"]>>,
     df |-> <<Num(p1), Num(p2)>>]

ScenarioA == Scenario(60, 100, 40, 30)
ScenarioB == Scenario(50, 10, 50, 10)

ExampleInit ==
    /\ pc = "load_prices"
    /\ \E sc \in {ScenarioA, ScenarioB} :
          \E d \in 0..ExampleSpread :
              /\ companies = sc.cs
              /\ csv = [exists |-> TRUE, df |-> sc.df]
              /\ total_cash_usd = (IF sc = ScenarioA THEN 1000 ELSE 101) + d
    /\ purchase_ts = 2
    /\ fx_series_by_currency =
           [c \in Currencies |->
               IF c = "USD" THEN Series(ConstOne(BusinessDays)) ELSE NoSeries]
    /\ initial_prices_local = <<>>
    /\ repo_messages = <<>>
    /\ comp_idx = 1
    /\ rows = <<>>
    /\ messages = <<>>
    /\ precos_iniciais_usd = [t \in Tickers |-> None]
    /\ caixa = 0
    /\ caixa_inicial = 0
    /\ min_price = 0
    /\ eventos = <<>>
    /\ final_cash_usd = 0
    /\ FxIdle
    /\ HistIdle

ExampleSpec == ExampleInit /\ [][Next]_vars

\* ======================================================= CurrencyRatesService
\* ------------------------------------------------------------------ bounds
IndexLen == 2
MaxCurrencies == 2

FxCurrencies == {"USD", "HKD", "CNY", "EUR"}
CloseValues == {-2, 0, 2}

\* the target index, and the dates the market data may quote (date 0 lies
\* before the index)
FxIndex == [p \in 1..IndexLen |-> p]
RawDates == 0..IndexLen

\* a rate is the rational n / d, or missing
RNum(n, d) == [k |-> "num", n |-> n, d |-> d]
RNaN == [k |-> "nan", n |-> 0, d |-> 1]
RIsNa(x) == x.k = "nan"
RPositive(x) == x.k = "num" /\ x.n * x.d > 0

\* pd.Series(1.0, index=index)
FxConstOne == [p \in 1..IndexLen |-> RNum(1, 1)]

\* CurrencyPairConfig; symbol "" stands for None, present = FALSE for a
\* currency without an entry in the dict
PairCfg(currency, symbol, invert) ==
    [present |-> TRUE, currency |-> currency, symbol |-> symbol, invert |-> invert]
NoCfg == [present |-> FALSE, currency |-> "", symbol |-> "", invert |-> FALSE]

CURRENCY_TO_PAIR ==
    [c \in FxCurrencies |->
        CASE c = "USD" -> PairCfg("USD", "", FALSE)
          [] c = "HKD" -> PairCfg("HKD", "USDHKD=X", TRUE)
          [] c = "CNY" -> PairCfg("CNY", "USDCNY=X", TRUE)
          [] OTHER -> NoCfg]

EmptyDict == [c \in FxCurrencies |-> NoCfg]
IsEmptyDict(d) == \A c \in FxCurrencies : ~d[c].present

\* the pair_config argument: None, or a dict
NoneArg == [given |-> FALSE, dict |-> EmptyDict]
DictArg(d) == [given |-> TRUE, dict |-> d]
ConfigArgs ==
    { NoneArg,
      DictArg(EmptyDict),
      DictArg([c \in FxCurrencies |->
                  IF c = "HKD" THEN PairCfg("HKD", "HKDUSD=X", FALSE) ELSE NoCfg]),
      DictArg([c \in FxCurrencies |->
                  CASE c = "EUR" -> PairCfg("EUR", "EURUSD=X", FALSE)
                    [] c = "HKD" -> PairCfg("HKD", "", FALSE)
                    [] OTHER -> NoCfg]) }

\* pair_config or CURRENCY_TO_PAIR: None and the empty dict are both falsy
EffectiveConfig(arg) ==
    IF ~arg.given \/ IsEmptyDict(arg.dict) THEN CURRENCY_TO_PAIR ELSE arg.dict

CurrencyLists ==
    UNION {{cs \in [1..n -> FxCurrencies] :
                \A a, b \in 1..n : a # b => cs[a] # cs[b]} : n \in 0..MaxCurrencies}

\* what yf.Ticker(symbol).history gives: an exception, a frame without a
\* Close column, or closes on some of the raw dates
CAbsent == [k |-> "absent", v |-> 0]
CNaN == [k |-> "nan", v |-> 0]
CVal(q) == [k |-> "num", v |-> q]
CloseCells == {CAbsent, CNaN} \cup {CVal(q) : q \in CloseValues}
NoCloses == [d \in RawDates |-> CAbsent]
FetchOutcomes ==
    {[kind |-> "raise", closes |-> NoCloses], [kind |-> "no_close", closes |-> NoCloses]}
    \cup {[kind |-> "data", closes |-> cl] : cl \in [RawDates -> CloseCells]}

\* hist.empty or "Close" not in hist
HistEmpty(outcome) ==
    \/ outcome.kind = "no_close"
    \/ \A d \in RawDates : outcome.closes[d] = CAbsent

\* astype(float).replace(0.0, nan), then 1 / serie when invert
CloseToRate(cell, invert) ==
    IF cell.k # "num" \/ cell.v = 0 THEN RNaN
    ELSE IF invert THEN RNum(1, cell.v) ELSE RNum(cell.v, 1)

\* sort_index().reindex(index)
Reindex(closes, invert) ==
    [p \in 1..IndexLen |->
        IF closes[FxIndex[p]] = CAbsent THEN RNaN
        ELSE CloseToRate(closes[FxIndex[p]], invert)]

RECURSIVE FfillAt(_, _)
FfillAt(s, p) ==
    IF p = 0 THEN RNaN
    ELSE IF ~RIsNa(s[p]) THEN s[p] ELSE FfillAt(s, p - 1)
Ffill(s) == [p \in 1..Len(s) |-> FfillAt(s, p)]

RECURSIVE BfillAt(_, _)
BfillAt(s, p) ==
    IF p > Len(s) THEN RNaN
    ELSE IF ~RIsNa(s[p]) THEN s[p] ELSE BfillAt(s, p + 1)
Bfill(s) == [p \in 1..Len(s) |-> BfillAt(s, p)]

\* a variant of AllMissing that never reports an empty series
AllMissingNever(s) == FALSE

\* serie.isna().all()
AllMissing(s) == \A p \in 1..Len(s) : RIsNa(s[p])

\* _fetch_currency_series: the series returned and the messages appended
FetchCurrencySeries(currency, outcome, invert) ==
    LET serie == Ffill(Reindex(outcome.closes, invert))
        failed == \/ outcome.kind = "raise"
                  \/ HistEmpty(outcome)
                  \/ AllMissing(serie)
    IN  IF failed
        THEN [s |-> FxConstOne, msgs |-> <<Msg("WARNING", "fetch_failed", currency)>>]
        ELSE [s |-> Bfill(serie), msgs |-> <<>>]

\* the allocator is not running
AllocIdle ==
    /\ pc = "idle"
    /\ companies = <<>>
    /\ total_cash_usd = 0
    /\ purchase_ts = 0
    /\ fx_series_by_currency = <<>>
    /\ csv = <<>>
    /\ initial_prices_local = <<>>
    /\ repo_messages = <<>>
    /\ comp_idx = 1
    /\ rows = <<>>
    /\ messages = <<>>
    /\ precos_iniciais_usd = <<>>
    /\ caixa = 0
    /\ caixa_inicial = 0
    /\ min_price = 0
    /\ eventos = <<>>
    /\ final_cash_usd = 0

FxInit ==
    /\ AllocIdle
    /\ HistIdle
    /\ fx_pc = "new"
    /\ pair_config_arg \in ConfigArgs
    /\ pair_config = <<>>
    /\ currencies \in CurrencyLists
    /\ cur_idx = 1
    /\ fx_map = <<>>
    /\ fx_messages = <<>>
    /\ fetch_log = <<>>

\* CurrencyRatesService.__init__
Construct ==
    /\ fx_pc = "new"
    /\ pair_config' = EffectiveConfig(pair_config_arg)
    /\ fx_pc' = "load"
    /\ UNCHANGED <<pair_config_arg, currencies, cur_idx, fx_map, fx_messages,
                   fetch_log, allocVars, histVars>>

SetSeries(m, currency, s) ==
    [c \in (DOMAIN m) \cup {currency} |-> IF c = currency THEN s ELSE m[c]]

\* One pass of the for loop of load_series over a currency.
LoadSeriesStep ==
    /\ fx_pc = "load"
    /\ cur_idx <= Len(currencies)
    /\ LET currency == currencies[cur_idx]
           config == pair_config[currency]
       IN  IF currency = "USD"
           THEN /\ fx_map' = SetSeries(fx_map, currency, FxConstOne)
                /\ UNCHANGED <<fx_messages, fetch_log>>
           ELSE IF ~config.present \/ config.symbol = ""
           THEN /\ fx_messages' =
                       Append(fx_messages, Msg("WARNING", "no_pair_config", currency))
                /\ fx_map' = SetSeries(fx_map, currency, FxConstOne)
                /\ UNCHANGED fetch_log
           ELSE \E outcome \in FetchOutcomes :
                   LET r == FetchCurrencySeries(config.currency, outcome, config.invert)
                   IN  /\ fetch_log' = Append(fetch_log,
                              [currency |-> currency, symbol |-> config.symbol,
                               outcome |-> outcome])
                       /\ fx_messages' = fx_messages \o r.msgs
                       /\ fx_map' = SetSeries(fx_map, currency, r.s)
    /\ cur_idx' = cur_idx + 1
    /\ UNCHANGED <<fx_pc, pair_config_arg, pair_config, currencies, allocVars, histVars>>

\* The end of the for loop: load_series returns the CurrencyRatesResult.
LoadSeriesReturn ==
    /\ fx_pc = "load"
    /\ cur_idx > Len(currencies)
    /\ fx_pc' = "done"
    /\ UNCHANGED <<pair_config_arg, pair_config, currencies, cur_idx, fx_map,
                   fx_messages, fetch_log, allocVars, histVars>>

FxNext ==
    \/ Construct
    \/ LoadSeriesStep
    \/ LoadSeriesReturn

FxSpec == FxInit /\ [][FxNext]_vars

\* ======================================================= PriceHistoryService
HistTickers == 1..2
HistCompanyLists ==
    UNION {[1..n -> [ticker : HistTickers, currency : Currencies]] :
              n \in 0..MaxHistCompanies}

\* What yf.Ticker(ticker).history gives: an exception, or a frame whose rows
\* are dated and which has a Close column or not.
Raised == [kind |-> "raise", has_close |-> FALSE, closes |-> <<>>]
Frame(has_close, closes) == [kind |-> "frame", has_close |-> has_close, closes |-> closes]

HistCells == {Absent, NaN, Num(2)}

RECURSIVE ClosesFrom(_, _)
ClosesFrom(f, d) ==
    IF d > HistLen THEN <<>>
    ELSE IF f[d] = Absent THEN ClosesFrom(f, d + 1)
    ELSE <<Pt(d, f[d])>> \o ClosesFrom(f, d + 1)

HistOutcomes ==
    {Raised, Frame(FALSE, <<Pt(1, NaN)>>)}
        \cup {Frame(TRUE, ClosesFrom(f, 1)) : f \in [1..HistLen -> HistCells]}

HistFxChoices ==
    { NoSeries,
      Series(<<Pt(2, Num(2))>>),
      Series(<<Pt(1, Num(2)), Pt(2, NaN)>>) }

\* tickers = {company.ticker: company for company in companies}: the keys in
\* the order of their first occurrence, each with the last company that has it
RECURSIVE TickerOrder(_, _)
TickerOrder(cs, seen) ==
    IF cs = <<>> THEN <<>>
    ELSE IF Head(cs).ticker \in seen THEN TickerOrder(Tail(cs), seen)
    ELSE <<Head(cs).ticker>> \o TickerOrder(Tail(cs), seen \cup {Head(cs).ticker})

CompanyOfTicker(cs, t) ==
    cs[CHOOSE k \in 1..Len(cs) :
          /\ cs[k].ticker = t
          /\ \A j \in 1..Len(cs) : cs[j].ticker = t => j <= k]

\* a variant of HistFetchFails that takes only an exception as a failure
HistFetchFailsOnRaise(o) == o.kind = "raise"

\* the fetch raises, or hist.empty or "Close" not in hist
HistFetchFails(o) == o.kind = "raise" \/ o.closes = <<>> \/ ~o.has_close

\* fx_series.reindex(serie.index, method="ffill") at one date: the entry of
\* the last label at or before it, missing or not
ReindexFfill(fx, t) ==
    LET before == {k \in 1..Len(fx) : fx[k].t <= t}
    IN  IF before = {} THEN NaN
        ELSE fx[CHOOSE k \in before : \A j \in before : j <= k].x

\* .bfill() at one position: the next value that is not missing
BfillSeries(a, i) ==
    LET later == {k \in i..Len(a) : ~IsNa(a[k])}
    IN  IF later = {} THEN NaN
        ELSE a[CHOOSE k \in later : \A j \in later : k <= j]

\* fx_alinhado; the default pd.Series(1.0) has no dates, and where reindexing
\* it does not raise it gives 1.0 at every date
AlignFx(e, serie) ==
    IF ~e.present THEN [i \in 1..Len(serie) |-> Num(1)]
    ELSE LET r == [i \in 1..Len(serie) |-> ReindexFfill(e.s, serie[i].t)]
         IN  [i \in 1..Len(serie) |-> BfillSeries(r, i)]

HistFailure == [serie |-> <<>>, warned |-> TRUE]

\* _load_single_history: the USD closes, or a WARNING and an empty series
LoadSingleHistory(e, o, raises) ==
    IF HistFetchFails(o) THEN HistFailure
    ELSE IF ~e.present /\ raises THEN HistFailure
    ELSE LET fx_alinhado == AlignFx(e, o.closes)
         IN  [serie |-> [i \in 1..Len(o.closes) |->
                            Pt(o.closes[i].t, FloatMul(o.closes[i].x, fx_alinhado[i]))],
              warned |-> FALSE]

\* pd.DataFrame(price_series): one column per key, over the union of the dates
DataFrame(ps) ==
    LET index == UNION {{ps[k].serie[i].t : i \in 1..Len(ps[k].serie)} : k \in 1..Len(ps)}
        CellAt(serie, d) ==
            IF \E i \in 1..Len(serie) : serie[i].t = d
            THEN serie[CHOOSE i \in 1..Len(serie) : serie[i].t = d].x
            ELSE NaN
    IN  [index |-> index,
         columns |-> [k \in 1..Len(ps) |-> ps[k].ticker],
         col |-> [k \in 1..Len(ps) |-> [d \in index |-> CellAt(ps[k].serie, d)]]]

HistInit ==
    /\ hist_pc = "begin"
    /\ hist_companies \in HistCompanyLists
    /\ \E h \in HistFxChoices :
          hist_fx = [c \in Currencies |->
                        IF c = "USD" THEN Series(ConstOne(BusinessDays)) ELSE h]
    /\ hist_fetch \in [HistTickers -> HistOutcomes]
    /\ align_raises \in BOOLEAN
    /\ tickers = <<>>
    /\ hist_idx = 1
    /\ price_series = <<>>
    /\ hist_messages = <<>>
    /\ prices_df = <<>>
    /\ AllocIdle
    /\ FxIdle

\* the set-up of load_usd_history
LoadUsdHistoryBegin ==
    /\ hist_pc = "begin"
    /\ tickers' = TickerOrder(hist_companies, {})
    /\ price_series' = <<>>
    /\ hist_messages' = <<>>
    /\ hist_idx' = 1
    /\ hist_pc' = "loop"
    /\ UNCHANGED <<hist_companies, hist_fx, hist_fetch, align_raises, prices_df,
                   allocVars, fxVars>>

\* one iteration of the loop over tickers.items()
LoadUsdHistoryStep ==
    /\ hist_pc = "loop"
    /\ hist_idx <= Len(tickers)
    /\ LET ticker == tickers[hist_idx]
           company == CompanyOfTicker(hist_companies, ticker)
           fx_series == hist_fx[company.currency]
           r == LoadSingleHistory(fx_series, hist_fetch[ticker], align_raises)
       IN  /\ hist_messages' =
                 hist_messages
                     \o (IF ~fx_series.present
                         THEN <<Msg("WARNING", "no_fx_series", ticker)>> ELSE <<>>)
                     \o (IF r.warned
                         THEN <<Msg("WARNING", "history_failed", ticker)>> ELSE <<>>)
           /\ price_series' = Append(price_series, [ticker |-> ticker, serie |-> r.serie])
    /\ hist_idx' = hist_idx + 1
    /\ UNCHANGED <<hist_pc, hist_companies, hist_fx, hist_fetch, align_raises, tickers,
                   prices_df, allocVars, fxVars>>

\* the frame is built and returned
LoadUsdHistoryReturn ==
    /\ hist_pc = "loop"
    /\ hist_idx > Len(tickers)
    /\ prices_df' = DataFrame(price_series)
    /\ hist_pc' = "done"
    /\ UNCHANGED <<hist_companies, hist_fx, hist_fetch, align_raises, tickers, hist_idx,
                   price_series, hist_messages, allocVars, fxVars>>

HistNext ==
    \/ LoadUsdHistoryBegin
    \/ LoadUsdHistoryStep
    \/ LoadUsdHistoryReturn

HistSpec == HistInit /\ [][HistNext]_vars

\* ------------------------------------------------------------ claims: allocate
RowTickers == {rows[k].Ticker : k \in 1..Len(rows)}
EventTickers == {eventos[k].ticker : k \in 1..Len(eventos)}
MsgSet(ms) == {ms[k] : k \in 1..Len(ms)}

\* C1 (as stated): after the distribution loop, with at least one included
\* company, the remaining cash is strictly below the price of the cheapest
\* included instrument, unless no instrument was ever affordable.
C1_CashBelowCheapest ==
    (pc = "done" /\ rows # <<>>) =>
        \/ final_cash_usd < min_price
        \/ caixa_inicial + EPS < min_price

\* C1 (amended): after the distribution loop, either the remaining cash plus
\* EPS is below the cheapest included price, or every instrument that is
\* still affordable is at or above its target (gap <= 0).
C1_LoopPostcondition ==
    (pc = "done" /\ rows # <<>>) =>
        \/ final_cash_usd + EPS < min_price
        \/ \A k \in 1..Len(rows) :
               rows[k].PrecoUSD <= final_cash_usd + EPS => Gap100(rows[k]) <= 0

\* a run that bought and still stopped with cash for the cheapest instrument
C1_Witness ==
    /\ pc = "done"
    /\ eventos # <<>>
    /\ final_cash_usd >= min_price

\* C2: conservation: from the initial integer allocation on, the invested
\* amount (quantity x USD price, summed over the rows) plus the remaining
\* cash equals total_cash_usd, and so do the final quantities and
\* final_cash_usd.
C2_Conservation ==
    /\ pc \in {"loop", "final"} => SumInvested(rows) + caixa = total_cash_usd
    /\ pc = "done" => SumInvested(rows) + final_cash_usd = total_cash_usd

\* a finished run of two instruments with at least two purchases
C2_Witness ==
    /\ pc = "done"
    /\ Len(rows) = 2
    /\ Len(eventos) >= 2

\* C3 (as stated): the loop performs at most total_cash / min_price purchases.
C3_IterationBound == Len(eventos) * min_price <= total_cash_usd

\* C3 (amended): the loop terminates: every iteration either leaves the loop
\* or makes one purchase that lowers the remaining cash by at least the
\* cheapest price, which is positive, and the number of purchases is at most
\* (total_cash + EPS) / min_price.
C3_TerminatesWithinBound ==
    /\ [](Len(eventos) * min_price <= total_cash_usd + EPS)
    /\ [][pc = "loop" =>
            /\ min_price > 0
            /\ \/ pc' = "final" /\ eventos' = eventos
               \/ /\ pc' = "loop"
                  /\ caixa + EPS >= min_price
                  /\ Len(eventos') = Len(eventos) + 1
                  /\ caixa' <= caixa - min_price]_vars

\* a finished run that used the EPS tolerance to make its last purchase
C3_Witness ==
    /\ pc = "done"
    /\ eventos # <<>>
    /\ Len(eventos) * min_price = total_cash_usd + EPS

\* C4: for every included company the initial integer quantity is the floor
\* of the exact quantity (total_cash x weight / 100) / usd_price, and the
\* residual exact - integer lies in [0, 1).
C4_ResidualInUnitInterval ==
    \A k \in 1..Len(rows) :
        LET r == rows[k]
            num == total_cash_usd * r.Peso
            den == 100 * r.PrecoUSD
        IN  /\ den > 0
            /\ r.QtdExataNum = num /\ r.QtdExataDen = den
            /\ r.QtdInteiraInicial * den <= num
            /\ num < (r.QtdInteiraInicial + 1) * den
            /\ r.ResNum = num - r.QtdInteiraInicial * den
            /\ 0 <= r.ResNum /\ r.ResNum < den

\* a row with a positive integer quantity and a residual above one half
C4_Witness ==
    \E k \in 1..Len(rows) :
        /\ rows[k].QtdInteiraInicial >= 1
        /\ 2 * rows[k].ResNum > rows[k].QtdExataDen

\* the USD purchase price of a company, from the inputs of allocate
ResolvedUsdPrice(c) ==
    LET entry == fx_series_by_currency[c.currency]
        rate == IF ~entry.present \/ entry.s = <<>> THEN Num(1)
                ELSE ExtractFxRate(entry.s, purchase_ts).rate
    IN  FloatMul(initial_prices_local[c.ticker], rate)

HasLocalPrice(c) == ~IsNone(initial_prices_local[c.ticker])
PriceIsInvalid(c) == IsNa(ResolvedUsdPrice(c)) \/ ResolvedUsdPrice(c).v <= 0

\* C6: a company whose resolved USD price is undefined or non-positive gets
\* an ERROR message and no allocation row, no entry in the USD price map and
\* no purchase event; every other company with a price is allocated.
C6_InvalidPriceExcluded ==
    (pc = "done") =>
        \A k \in 1..Len(companies) :
            LET c == companies[k]
            IN  /\ (HasLocalPrice(c) /\ PriceIsInvalid(c)) =>
                       /\ c.ticker \notin RowTickers
                       /\ IsNone(precos_iniciais_usd[c.ticker])
                       /\ c.ticker \notin EventTickers
                       /\ \E m \in MsgSet(messages) :
                              m.level = "ERROR" /\ m.about = c.ticker
                /\ (HasLocalPrice(c) /\ ~PriceIsInvalid(c)) =>
                       /\ \E n \in 1..Len(rows) :
                              /\ rows[n].Ticker = c.ticker
                              /\ rows[n].PrecoUSD = ResolvedUsdPrice(c).v
                              /\ rows[n].Quantidade >= rows[n].QtdInteiraInicial
                       /\ precos_iniciais_usd[c.ticker] = ResolvedUsdPrice(c)

\* a finished run with one company excluded for its price, one allocated
\* and bought in the loop
C6_Witness ==
    /\ pc = "done"
    /\ eventos # <<>>
    /\ \E k \in 1..Len(companies) :
           HasLocalPrice(companies[k]) /\ PriceIsInvalid(companies[k])

MissingInSnapshot(c) == csv.exists /\ csv.df[c.ticker] = Absent
AllMessages == MsgSet(repo_messages) \cup MsgSet(messages)

\* C7 (as stated): a company whose ticker is missing from the snapshot is
\* excluded, and the message reported for the missing ticker is a WARNING.
C7_MissingTickerWarning ==
    (pc = "done") =>
        \A k \in 1..Len(companies) :
            MissingInSnapshot(companies[k]) =>
                /\ companies[k].ticker \notin RowTickers
                /\ \A m \in AllMessages :
                       m.about = companies[k].ticker => m.level = "WARNING"

\* C7 (amended): a company whose ticker is missing from the snapshot is
\* excluded; load_prices reports it with a WARNING and allocate reports it
\* with an ERROR.
C7_MissingTickerExcluded ==
    (pc = "done") =>
        \A k \in 1..Len(companies) :
            LET t == companies[k].ticker
            IN  MissingInSnapshot(companies[k]) =>
                    /\ t \notin RowTickers
                    /\ IsNone(precos_iniciais_usd[t])
                    /\ {m \in MsgSet(repo_messages) : m.about = t}
                           = {Msg("WARNING", "ticker_absent_csv", t)}
                    /\ {m \in MsgSet(messages) : m.about = t}
                           = {Msg("ERROR", "no_initial_price", t)}

\* a finished run with a ticker missing from an existing snapshot and
\* another company allocated
C7_Witness ==
    /\ pc = "done"
    /\ rows # <<>>
    /\ \E k \in 1..Len(companies) : MissingInSnapshot(companies[k])

\* ------------------------------------------------ claims: CurrencyRatesService
Requested == {currencies[k] : k \in 1..Len(currencies)}
Processed == {currencies[k] : k \in 1..(cur_idx - 1)}
WarningsAbout(c) ==
    {k \in 1..Len(fx_messages) :
        fx_messages[k].about = c /\ fx_messages[k].level = "WARNING"}
FetchesOf(c) == {k \in 1..Len(fetch_log) : fetch_log[k].currency = c}

\* the configuration handed to the service: the dict given, or the module
\* default when none was given
SuppliedConfig == IF pair_config_arg.given THEN pair_config_arg.dict ELSE CURRENCY_TO_PAIR
Unconfigured(c) == ~SuppliedConfig[c].present \/ SuppliedConfig[c].symbol = ""

\* C8: every requested non-USD currency without a configured pair (or whose
\* pair has no symbol) gets a constant 1.0 series and exactly one WARNING,
\* and is never fetched, for any pair configuration supplied, the empty one
\* included.
C8_UnconfiguredFallsBack ==
    (fx_pc = "done") =>
        \A c \in Requested :
            (c # "USD" /\ Unconfigured(c)) =>
                /\ fx_map[c] = FxConstOne
                /\ Cardinality(WarningsAbout(c)) = 1
                /\ FetchesOf(c) = {}

\* the market data gave nothing usable for the fetch: an exception, no
\* closes, or no close that is a number other than zero on a date of the index
FetchGaveNothing(outcome) ==
    \/ outcome.kind # "data"
    \/ \A d \in RawDates : outcome.closes[d] = CAbsent
    \/ \A p \in 1..IndexLen :
          \/ outcome.closes[FxIndex[p]].k # "num"
          \/ outcome.closes[FxIndex[p]].v = 0

\* C9: when the fetch of a currency raises, gives no closes, or leaves the
\* series entirely missing, load_series appends one WARNING and substitutes
\* the constant 1.0 series; it returns a series over the index for every
\* requested currency, and processing a currency never changes the series or
\* the messages already produced for another.
C9_FailSoft ==
    /\ [](/\ \A c \in Processed :
                /\ c \in DOMAIN fx_map
                /\ Len(fx_map[c]) = IndexLen
          /\ \A k \in 1..Len(fetch_log) :
                LET c == fetch_log[k].currency
                IN  IF FetchGaveNothing(fetch_log[k].outcome)
                    THEN /\ fx_map[c] = FxConstOne
                         /\ Cardinality(WarningsAbout(c)) = 1
                    ELSE /\ \A p \in 1..IndexLen : ~RIsNa(fx_map[c][p])
                         /\ WarningsAbout(c) = {}
          /\ fx_pc = "done" => DOMAIN fx_map = Requested)
    /\ [][/\ \A c \in DOMAIN fx_map :
                c \in DOMAIN fx_map' /\ fx_map'[c] = fx_map[c]
          /\ SubSeq(fx_messages', 1, Len(fx_messages)) = fx_messages]_vars

\* load_series returned after one fetch failed and another gave a series
\* that is not the constant 1.0
C9_Witness ==
    /\ fx_pc = "done"
    /\ \E a, b \in 1..Len(fetch_log) :
          /\ FetchGaveNothing(fetch_log[a].outcome)
          /\ fetch_log[a].outcome.kind = "data"
          /\ ~FetchGaveNothing(fetch_log[b].outcome)
          /\ fx_map[fetch_log[b].currency] # FxConstOne

\* C10: every non-positive raw quote is replaced by missing before the
\* inversion, so every rate of every series returned by load_series is
\* strictly positive.
C10_RatesPositive ==
    \A c \in DOMAIN fx_map :
        \A p \in 1..Len(fx_map[c]) : RPositive(fx_map[c][p])

\* ------------------------------------------------- claims: FX rate resolution
\* the points of a series with a value, dated at or before ts
ValuedAtOrBefore(s, ts) == {k \in 1..Len(s) : s[k].t <= ts /\ s[k].x.k = "num"}
Valued(s) == {k \in 1..Len(s) : s[k].x.k = "num"}

\* C11: for a non-empty FX series, the FX rate used for a company is the value
\* of the latest point with a value dated at or before the purchase date,
\* whenever there is one: never a later point, never the nearest one.
C11_AsofLatestAtOrBefore ==
    \A n \in 1..Len(rows) :
        LET s == fx_series_by_currency[rows[n].Moeda].s
            cands == ValuedAtOrBefore(s, purchase_ts)
        IN  cands # {} =>
                \E k \in cands :
                    /\ \A q \in cands : s[q].t <= s[k].t
                    /\ rows[n].FX = s[k].x.v

\* an allocated company whose series has a value before the purchase date and
\* a different value after it that is nearer to the purchase date
C11_Witness ==
    /\ pc = "done"
    /\ \E n \in 1..Len(rows) :
          LET s == fx_series_by_currency[rows[n].Moeda].s
          IN  \E a, b \in Valued(s) :
                  /\ s[a].t < purchase_ts /\ purchase_ts < s[b].t
                  /\ s[b].t - purchase_ts < purchase_ts - s[a].t
                  /\ s[a].x # s[b].x
                  /\ rows[n].FX = s[a].x.v

\* the company has no FX rate as of the purchase date
NoRateAsOf(c) ==
    LET e == fx_series_by_currency[c.currency]
    IN  ~e.present \/ ValuedAtOrBefore(e.s, purchase_ts) = {}

\* the value the fallback substitutes: the latest value of the whole series,
\* 1 when there is no series or no value
FallbackRate(c) ==
    LET e == fx_series_by_currency[c.currency]
    IN  IF ~e.present \/ Valued(e.s) = {} THEN 1
        ELSE e.s[CHOOSE k \in Valued(e.s) : \A q \in Valued(e.s) : e.s[q].t <= e.s[k].t].x.v

HasPositiveLocalPrice(c) ==
    /\ initial_prices_local[c.ticker].k = "num"
    /\ initial_prices_local[c.ticker].v > 0

WarnedAbout(t) ==
    \E m \in MsgSet(messages) : m.level = "WARNING" /\ m.about = t

\* C17: when no FX rate is available as of the purchase date,
\* allocate emits a WARNING, uses the last available value of the series, or
\* 1.0 when the series is missing or empty, and the company is still allocated.
C17_FallbackStillAllocated ==
    (pc = "done") =>
        \A k \in 1..Len(companies) :
            LET c == companies[k]
            IN  (HasPositiveLocalPrice(c) /\ NoRateAsOf(c)) =>
                    /\ WarnedAbout(c.ticker)
                    /\ \E n \in 1..Len(rows) :
                          /\ rows[n].Ticker = c.ticker
                          /\ rows[n].FX = FallbackRate(c)

\* ------------------------------------------------- claims: the greedy loop
\* the step is an iteration of the loop that buys
BuyStep == pc = "loop" /\ Len(eventos') = Len(eventos) + 1

\* the rows whose quantity the step changes
Bought == {n \in 1..Len(rows) : rows'[n].Quantidade # rows[n].Quantidade}

IsAffordable(n) == rows[n].PrecoUSD <= caixa + EPS

\* C14: in every loop iteration that buys, the purchased instrument is
\* affordable (price <= remaining cash + EPS) and has the largest gap among
\* all affordable instruments; among the affordable instruments tied on the
\* largest gap, the one bought has the lowest price.
C14_GreedySelection ==
    [][BuyStep =>
          /\ Bought # {}
          /\ \A n \in Bought :
                /\ IsAffordable(n)
                /\ eventos'[Len(eventos')].ticker = rows[n].Ticker
                /\ \A j \in 1..Len(rows) :
                      IsAffordable(j) =>
                          /\ Gap100(rows[j]) <= Gap100(rows[n])
                          /\ Gap100(rows[j]) = Gap100(rows[n]) =>
                                 rows[n].PrecoUSD <= rows[j].PrecoUSD]_vars

\* a purchase that was decided by the price: another instrument was
\* affordable with the same gap and a higher price
C14_Witness ==
    /\ pc = "loop"
    /\ eventos # <<>>
    /\ LET e == eventos[Len(eventos)]
       IN  \E j \in 1..Len(rows) :
               /\ rows[j].Ticker # e.ticker
               /\ Gap100(rows[j]) = e.gap_before100
               /\ rows[j].PrecoUSD > e.unit_price_usd
               /\ rows[j].PrecoUSD <= e.cash_before_usd + EPS

\* the largest gap among the affordable instruments is not positive
NothingWorthBuying ==
    /\ \E n \in 1..Len(rows) : IsAffordable(n)
    /\ \A n \in 1..Len(rows) : IsAffordable(n) => Gap100(rows[n]) <= 0

\* C15: the loop stops without buying as soon as the best affordable
\* candidate's gap is <= 0, so every PurchaseEvent of the log has a gap before
\* the purchase strictly greater than 0, and no instrument at or above its
\* target is ever bought.
C15_StopsAtTarget ==
    /\ [](\A k \in 1..Len(eventos) : eventos[k].gap_before100 > 0)
    /\ [][pc = "loop" =>
            /\ NothingWorthBuying =>
                   (pc' = "final" /\ eventos' = eventos /\ rows' = rows /\ caixa' = caixa)
            /\ \A n \in Bought : Gap100(rows[n]) > 0]_vars

\* the loop has bought and then stopped although the cash still paid for an
\* instrument, because every affordable instrument was at or above its target
C15_Witness ==
    /\ pc = "final"
    /\ eventos # <<>>
    /\ caixa + EPS >= min_price
    /\ NothingWorthBuying

\* C16: each buying iteration increases the quantity of exactly one instrument
\* by exactly 1 and leaves every other quantity, and all prices and targets,
\* unchanged; it debits exactly that instrument's price from the remaining
\* cash and appends exactly one PurchaseEvent with cash_after = cash_before -
\* unit_price and gap_after = gap_before - unit_price.
C16_BuyOneUnit ==
    [][BuyStep =>
          \E n \in 1..Len(rows) :
              /\ Len(rows') = Len(rows)
              /\ rows'[n].Quantidade = rows[n].Quantidade + 1
              /\ \A j \in 1..Len(rows) :
                    /\ j # n => rows'[j] = rows[j]
                    /\ rows'[j].PrecoUSD = rows[j].PrecoUSD
                    /\ rows'[j].Alvo100 = rows[j].Alvo100
                    /\ rows'[j].Ticker = rows[j].Ticker
              /\ caixa' = caixa - rows[n].PrecoUSD
              /\ SubSeq(eventos', 1, Len(eventos)) = eventos
              /\ LET e == eventos'[Len(eventos')]
                 IN  /\ e.ticker = rows[n].Ticker
                     /\ e.unit_price_usd = rows[n].PrecoUSD
                     /\ e.quantity_delta = 1
                     /\ e.cash_before_usd = caixa
                     /\ e.cash_after_usd = e.cash_before_usd - e.unit_price_usd
                     /\ e.cash_after_usd = caixa'
                     /\ e.gap_before100 = Gap100(rows[n])
                     /\ e.gap_after100 = e.gap_before100 - 100 * e.unit_price_usd
                     /\ e.gap_after100 = Gap100(rows'[n])]_vars

\* two instruments, one of them bought in the loop and the other untouched
C16_Witness ==
    /\ pc = "loop"
    /\ Len(rows) = 2
    /\ eventos # <<>>
    /\ \E n \in 1..2 : rows[n].Quantidade = rows[n].QtdInteiraInicial
    /\ \E n \in 1..2 : rows[n].Quantidade > rows[n].QtdInteiraInicial

\* --------------------------------------------- claims: log, overshoot, cash
Allocating == pc \in {"loop", "final", "done"}

RECURSIVE InitialSpend(_)
InitialSpend(rs) ==
    IF rs = <<>> THEN 0
    ELSE Head(rs).QtdInteiraInicial * Head(rs).PrecoUSD + InitialSpend(Tail(rs))

EventsOf(t) == {k \in 1..Len(eventos) : eventos[k].ticker = t}

\* C18: the purchase log is an ordered chain: the first event's cash_before is
\* initial_cash_usd (= total cash - sum of initial integer quantity x price),
\* each later event's cash_before is the previous event's cash_after, and the
\* last event's cash_after is final_cash_usd; for every instrument, final
\* quantity - initial integer quantity is the number of events logged for it.
C18_AuditChain ==
    Allocating =>
        /\ caixa_inicial = total_cash_usd - InitialSpend(rows)
        /\ eventos # <<>> =>
              /\ eventos[1].cash_before_usd = caixa_inicial
              /\ eventos[Len(eventos)].cash_after_usd = caixa
        /\ \A k \in 2..Len(eventos) :
              eventos[k].cash_before_usd = eventos[k - 1].cash_after_usd
        /\ \A n \in 1..Len(rows) :
              /\ rows[n].Quantidade >= rows[n].QtdInteiraInicial
              /\ rows[n].Quantidade - rows[n].QtdInteiraInicial =
                     Cardinality(EventsOf(rows[n].Ticker))
        /\ pc = "done" =>
              final_cash_usd =
                  IF eventos = <<>> THEN caixa_inicial
                  ELSE eventos[Len(eventos)].cash_after_usd

\* a finished allocation whose log has purchases of two instruments
C18_Witness ==
    /\ pc = "done"
    /\ Len(eventos) >= 2
    /\ \E a, b \in 1..Len(eventos) : eventos[a].ticker # eventos[b].ticker
    /\ final_cash_usd < caixa_inicial

\* C19: in every reachable state of allocate (weights in 0..100), each
\* instrument's gap is greater than minus its price: the invested amount
\* never exceeds the target by a full unit price, and the quantity is at most
\* floor(exact quantity) + 1.
C19_BoundedOvershoot ==
    Allocating =>
        \A n \in 1..Len(rows) :
            /\ rows[n].Peso \in 0..100
            /\ Gap100(rows[n]) > -(100 * rows[n].PrecoUSD)
            /\ rows[n].Quantidade <= rows[n].QtdInteiraInicial + 1

\* an instrument bought once in the loop and now above its target
C19_Witness ==
    /\ pc = "done"
    /\ \E n \in 1..Len(rows) :
          /\ rows[n].Quantidade = rows[n].QtdInteiraInicial + 1
          /\ Gap100(rows[n]) < 0

RECURSIVE WeightSum(_)
WeightSum(rs) == IF rs = <<>> THEN 0 ELSE Head(rs).Peso + WeightSum(Tail(rs))

\* C20: when the target weights of the included companies sum to at most 100,
\* the remaining cash is never negative beyond EPS in any state of allocate,
\* and neither is final_cash_usd.
C20_CashNotNegative ==
    (Allocating /\ WeightSum(rows) <= 100) =>
        /\ caixa >= -EPS
        /\ caixa_inicial >= -EPS
        /\ \A k \in 1..Len(eventos) : eventos[k].cash_after_usd >= -EPS
        /\ pc = "done" => final_cash_usd >= -EPS

\* two companies whose weights sum to 100, with all the cash spent after
\* purchases in the loop
C20_Witness ==
    /\ pc = "done"
    /\ Len(rows) = 2
    /\ WeightSum(rows) = 100
    /\ eventos # <<>>
    /\ final_cash_usd <= 0

\* the second half of C20: weights summing to more than 100 leave a negative
\* cash after the initial integer allocation, and a negative final_cash_usd
C20_NegativeCash ==
    /\ pc = "done"
    /\ WeightSum(rows) > 100
    /\ caixa_inicial < -EPS
    /\ final_cash_usd < -EPS

\* ------------------------------------------------- claims: the loop not run
NoLoopPurchase ==
    /\ eventos = <<>>
    /\ \A n \in 1..Len(rows) : rows[n].Quantidade = rows[n].QtdInteiraInicial

ScenarioResult(sc, cash, q1, q2, left) ==
    (pc = "done" /\ companies = sc.cs /\ csv.df = sc.df /\ total_cash_usd = cash) =>
        /\ Len(rows) = 2
        /\ rows[1].Quantidade = q1
        /\ rows[2].Quantidade = q2
        /\ eventos = <<>>
        /\ final_cash_usd = left

\* C12 (as stated): when the cash left after the initial integer allocation is
\* below the cheapest instrument's price, the loop never executes: the log is
\* empty and the final quantities are the initial integer quantities; A(60,
\* 100), B(40, 30) with cash 1000 gives 6, 13 and cash 10, and A(50, 10),
\* B(50, 10) with cash 101 gives 5, 5 and cash 1.
C12_BelowCheapestNoLoop ==
    /\ (Allocating /\ rows # <<>> /\ caixa_inicial < min_price) => NoLoopPurchase
    /\ ScenarioResult(ScenarioA, 1000, 6, 13, 10)
    /\ ScenarioResult(ScenarioB, 101, 5, 5, 1)

\* C12 (amended): when the cash left after the initial integer allocation plus
\* EPS is below the cheapest instrument's price, the loop never executes: the
\* log is empty and the final quantities are the initial integer quantities;
\* the two scenarios give 6, 13 with cash 10 and 5, 5 with cash 1.
C12_BelowCheapestByEpsNoLoop ==
    /\ (Allocating /\ rows # <<>> /\ caixa_inicial + EPS < min_price) => NoLoopPurchase
    /\ ScenarioResult(ScenarioA, 1000, 6, 13, 10)
    /\ ScenarioResult(ScenarioB, 101, 5, 5, 1)

\* the first scenario, finished
C12_Witness ==
    /\ pc = "done"
    /\ companies = ScenarioA.cs
    /\ total_cash_usd = 1000
    /\ caixa_inicial + EPS < min_price
    /\ rows[1].Quantidade = 6
    /\ rows[2].Quantidade = 13
    /\ final_cash_usd = 10

\* ------------------------------------------------- claims: load_usd_history
HistWarnings(t) ==
    {k \in 1..Len(hist_messages) :
        hist_messages[k].level = "WARNING" /\ hist_messages[k].about = t}

HistFailureWarnings(t) ==
    {k \in HistWarnings(t) : hist_messages[k].code = "history_failed"}

\* the fetch raised, or gave no rows, or gave rows without a Close column
NoHistory(o) == o.kind = "raise" \/ Len(o.closes) = 0 \/ o.has_close = FALSE

RequestedTickers == {hist_companies[k].ticker : k \in 1..Len(hist_companies)}

\* every requested ticker is a column of the returned frame, once
AllTickersAreColumns ==
    (hist_pc = "done") =>
        /\ {prices_df.columns[k] : k \in 1..Len(prices_df.columns)} = RequestedTickers
        /\ Len(prices_df.columns) = Cardinality(RequestedTickers)

\* an instrument whose fetch gave closes, with an FX series for its currency,
\* has its own closes times its own aligned rates, whatever the others gave
OwnSeriesOnly ==
    \A k \in 1..Len(price_series) :
        LET t == price_series[k].ticker
            o == hist_fetch[t]
            e == hist_fx[CompanyOfTicker(hist_companies, t).currency]
        IN  (~NoHistory(o) /\ e.present) =>
                /\ Len(price_series[k].serie) = Len(o.closes)
                /\ \A i \in 1..Len(o.closes) :
                      /\ price_series[k].serie[i].t = o.closes[i].t
                      /\ price_series[k].serie[i].x =
                             FloatMul(o.closes[i].x, AlignFx(e, o.closes)[i])
                /\ HistFailureWarnings(t) = {}

\* a step of the loop leaves the series already stored as they are
StoredSeriesKept ==
    hist_pc = "loop" =>
        /\ Len(price_series') >= Len(price_series)
        /\ \A k \in 1..Len(price_series) : price_series'[k] = price_series[k]

IsExcluded(c) == ~HasLocalPrice(c) \/ PriceIsInvalid(c)

ErrorsAbout(t) ==
    {i \in 1..Len(messages) : messages[i].level = "ERROR" /\ messages[i].about = t}

\* C21: when every company is excluded (missing price or invalid USD price)
\* or the company list is empty, allocate returns an empty allocation with no
\* purchase events, an empty USD price map and initial_cash_usd =
\* final_cash_usd = total_cash_usd, with one ERROR message per excluded
\* company.
C21_AllExcludedEmptyResult ==
    (pc = "done" /\ \A k \in 1..Len(companies) : IsExcluded(companies[k])) =>
        /\ rows = <<>>
        /\ eventos = <<>>
        /\ \A t \in DOMAIN precos_iniciais_usd : IsNone(precos_iniciais_usd[t])
        /\ caixa_inicial = total_cash_usd
        /\ final_cash_usd = total_cash_usd
        /\ \A k \in 1..Len(companies) :
              Cardinality(ErrorsAbout(companies[k].ticker)) = 1
        /\ Cardinality({i \in 1..Len(messages) : messages[i].level = "ERROR"})
               = Len(companies)

\* a finished run over two companies with some cash, one excluded for its
\* missing price and one for its invalid USD price
C21_Witness ==
    /\ pc = "done"
    /\ total_cash_usd > 0
    /\ Len(companies) = 2
    /\ \E a, b \in 1..2 :
          /\ ~HasLocalPrice(companies[a])
          /\ HasLocalPrice(companies[b]) /\ PriceIsInvalid(companies[b])
    /\ rows = <<>>
    /\ final_cash_usd = total_cash_usd

====
